---- MODULE Spec2Model ----
(***************************************************************************)
(* Model of the three ChromaDB startup scripts of the repository:          *)
(*   "server"  scripts/start-chromadb-server.py                            *)
(*   "fixed"   scripts/start-chromadb-server-fixed.py                      *)
(*   "simple"  scripts/start-chromadb-simple.py                            *)
(* One run of one script is one behaviour.  The script is a sequential     *)
(* program: pc is its position, every action is one statement block that   *)
(* runs between two blocking points.  The host (interpreter version,       *)
(* client library, data directory, TCP port), the child server process and *)
(* the operator's interrupt are the environment.                           *)
(***************************************************************************)
EXTENDS Integers, Sequences, FiniteSets

VARIABLES
    script,         \* which script this run executes
    pc,             \* position of the script
    pyOK,           \* host: sys.version_info >= (3, 8)
    libOK,          \* host: "import chromadb" succeeds
    dirExists,      \* host: ./chromadb_data exists
    mkdirOK,        \* host: mkdir of the data directory can succeed
    port,           \* host: what holds localhost:8000 before the run
    checks,         \* preflight checks executed so far, in order
    env,            \* the environment the script hands to the child
    envAtSpawn,     \* env as it was when the child was spawned
    child,          \* state of the child server process
    served,         \* the child has answered on the port at some time
    spawns,         \* number of server processes started by this run
    terminated,     \* the script called process.terminate()
    waited,         \* a wait of the script on the child has returned
    logOpen,        \* the parent holds the log file handle open
    attempt,        \* loop variable of the heartbeat loop
    requests,       \* heartbeat requests issued by the readiness poll
    sleeps,         \* 2-second sleeps taken by the readiness poll
    sleptSince,     \* a sleep was taken since the last heartbeat request
    backToBack,     \* some request followed another with no sleep between
    lastHB,         \* outcome of the last heartbeat request of the poll
    reportedReady,  \* the script printed that the server is ready/running
    result,         \* how the run ended
    exitCode,       \* exit status of the script
    ticks           \* iterations of the keep-running loop

host  == <<pyOK, libOK, mkdirOK, port>>
pollv == <<attempt, requests, sleeps, sleptSince, backToBack, lastHB>>
procv == <<child, served, spawns, terminated, waited, envAtSpawn>>
vars  == <<script, pc, pyOK, libOK, dirExists, mkdirOK, port, checks, env,
           envAtSpawn, child, served, spawns, terminated, waited, logOpen,
           attempt,
           requests, sleeps, sleptSince, backToBack, lastHB, reportedReady,
           result, exitCode, ticks>>

----------------------------------------------------------------------------
(* Program constants and vocabulary *)

\* range(5) of the heartbeat loop
timeout_attempts == 5

\* iterations of "while True: time.sleep(1)" that are told apart
MaxTicks == 2

Scripts == {"server", "fixed", "simple"}

Unset == "<unset>"

SixVars == {"CHROMA_SERVER_CORS_ALLOW_ORIGINS", "CHROMA_SERVER_HOST",
            "CHROMA_SERVER_HTTP_PORT", "CHROMA_SERVER_GRPC_PORT",
            "CHROMA_SERVER_AUTHN_CREDENTIALS_FILE",
            "CHROMA_SERVER_AUTHN_PROVIDER"}

EnvNames == SixVars \cup {"ANONYMIZED_TELEMETRY"}

\* What may hold the port before the run: nothing; a server answering the
\* heartbeat with 200; a server answering with another status; a listener
\* that accepts the connection and never answers.
PortStates == {"free", "http200", "httpOther", "silent"}

PrecheckOrder == <<"version", "library", "datadir", "port">>

Failures == {"precheck", "open_failed", "popen_failed", "early_exit",
             "not_responding"}

Alive == {"starting", "serving"}

\* sys.exit(0 if success else 1); an uncaught KeyboardInterrupt ends the
\* interpreter with the status of a SIGINT death
EXIT_OK == 0
EXIT_FAIL == 1
EXIT_SIGINT == 130

----------------------------------------------------------------------------
(* Entry points *)

EntryPc(s) ==
    CASE s = "server" -> "check_python_version"
      [] s = "fixed"  -> "check_python_version"
      [] s = "simple" -> "mkdir"

Init ==
    /\ script \in Scripts
    /\ pc = EntryPc(script)
    /\ pyOK \in BOOLEAN
    /\ libOK \in BOOLEAN
    /\ dirExists \in BOOLEAN
    /\ mkdirOK \in BOOLEAN
    /\ port \in PortStates
    /\ checks = << >>
    /\ env = [v \in EnvNames |-> Unset]
    /\ envAtSpawn = [v \in EnvNames |-> Unset]
    /\ child = "none"
    /\ served = FALSE
    /\ spawns = 0
    /\ terminated = FALSE
    /\ waited = FALSE
    /\ logOpen = FALSE
    /\ attempt = 0
    /\ requests = 0
    /\ sleeps = 0
    /\ sleptSince = FALSE
    /\ backToBack = FALSE
    /\ lastHB = "none"
    /\ reportedReady = FALSE
    /\ result = "none"
    /\ exitCode = -1
    /\ ticks = 0

\* The script ends: the interpreter exits with the given status.
Exit(res, code) ==
    /\ pc' = "done"
    /\ result' = res
    /\ exitCode' = code

----------------------------------------------------------------------------
(* The child server process and the heartbeat endpoint (environment) *)

\* The outcomes requests.get(".../api/v1/heartbeat") can have, given who
\* answers on the port: the child once it serves, else whatever held the
\* port before the run.  "connerr" is any RequestException (refused,
\* timeout), "other" any HTTP response whose status is not 200.
HeartbeatOutcomes ==
    CASE child = "serving"  -> {"ok200", "other"}
      [] port = "http200"   -> {"ok200"}
      [] port = "httpOther" -> {"other"}
      [] child = "starting" -> {"connerr", "other"}
      [] OTHER              -> {"connerr"}

\* The child finishes its start-up and binds the port (only a free port can
\* be bound).
child_becomes_serving ==
    /\ pc # "done"
    /\ child = "starting"
    /\ port = "free"
    /\ child' = "serving"
    /\ served' = TRUE
    /\ UNCHANGED <<script, pc, host, dirExists, checks, env, envAtSpawn,
                   spawns, terminated, waited, logOpen, pollv,
                   reportedReady, result, exitCode, ticks>>

\* The child exits: on its own (a start-up error, a crash) or because it was
\* sent a terminate signal.
child_exits ==
    /\ pc # "done"
    /\ child \in Alive
    /\ child' = "exited"
    /\ UNCHANGED <<script, served, pc, host, dirExists, checks, env,
                   envAtSpawn, spawns, terminated, waited, logOpen, pollv,
                   reportedReady, result, exitCode, ticks>>

----------------------------------------------------------------------------
(* scripts/start-chromadb-server.py *)

\* check_port_available(): False only on a heartbeat answered with 200; a
\* RequestException and every other HTTP status both give True.
check_port_available(p) ==
    CASE p = "http200"   -> FALSE
      [] p = "httpOther" -> TRUE
      [] OTHER           -> TRUE

\* main(): "if not check_python_version(): return False"
check_python_version ==
    /\ script = "server"
    /\ pc = "check_python_version"
    /\ checks' = Append(checks, "version")
    /\ IF pyOK
       THEN /\ pc' = "check_chromadb_installed"
            /\ UNCHANGED <<result, exitCode>>
       ELSE Exit("precheck", EXIT_FAIL)
    /\ UNCHANGED <<script, host, dirExists, env, procv, logOpen, pollv,
                   reportedReady, ticks>>

\* The same step with the early return dropped.
check_chromadb_installed_no_return ==
    /\ script = "server"
    /\ pc = "check_chromadb_installed"
    /\ checks' = Append(checks, "library")
    /\ pc' = "create_data_directory"
    /\ UNCHANGED <<result, exitCode>>
    /\ UNCHANGED <<script, host, dirExists, env, procv, logOpen, pollv,
                   reportedReady, ticks>>

\* main(): "if not check_chromadb_installed(): return False"
check_chromadb_installed ==
    /\ script = "server"
    /\ pc = "check_chromadb_installed"
    /\ checks' = Append(checks, "library")
    /\ IF libOK
       THEN /\ pc' = "create_data_directory"
            /\ UNCHANGED <<result, exitCode>>
       ELSE Exit("precheck", EXIT_FAIL)
    /\ UNCHANGED <<script, host, dirExists, env, procv, logOpen, pollv,
                   reportedReady, ticks>>

\* main(): "if not create_data_directory(): return False".  The function
\* returns True whenever it returns; a mkdir that raises is not caught
\* anywhere and ends the script with a traceback and status 1.
create_data_directory ==
    /\ script = "server"
    /\ pc = "create_data_directory"
    /\ checks' = Append(checks, "datadir")
    /\ IF dirExists \/ mkdirOK
       THEN /\ dirExists' = TRUE
            /\ pc' = "check_port_available"
            /\ UNCHANGED <<result, exitCode>>
       ELSE /\ UNCHANGED dirExists
            /\ Exit("precheck", EXIT_FAIL)
    /\ UNCHANGED <<script, host, env, procv, logOpen, pollv, reportedReady,
                   ticks>>

\* main(): "if not check_port_available(): ... return False"
main_check_port_available ==
    /\ script = "server"
    /\ pc = "check_port_available"
    /\ checks' = Append(checks, "port")
    /\ IF check_port_available(port)
       THEN /\ pc' = "prepare_env"
            /\ UNCHANGED <<result, exitCode>>
       ELSE Exit("precheck", EXIT_FAIL)
    /\ UNCHANGED <<script, host, dirExists, env, procv, logOpen, pollv,
                   reportedReady, ticks>>

\* start_chromadb_server(): env = os.environ.copy() and the three
\* assignments to it.
prepare_env ==
    /\ script = "server"
    /\ pc = "prepare_env"
    /\ env' = [env EXCEPT
                 !["CHROMA_SERVER_HOST"] = "localhost",
                 !["CHROMA_SERVER_HTTP_PORT"] = "8000",
                 !["CHROMA_SERVER_CORS_ALLOW_ORIGINS"] =
                     "http://localhost:3000,http://127.0.0.1:3000"]
    /\ pc' = "open_log"
    /\ UNCHANGED <<script, host, dirExists, checks, procv, logOpen, pollv,
                   reportedReady, result, exitCode, ticks>>

\* "with open(CHROMADB_LOG_PATH, 'w') as log_file:" and the header lines.
\* An OSError is caught by "except Exception", start_chromadb_server
\* returns False and main returns False.
open_log ==
    /\ script = "server"
    /\ pc = "open_log"
    /\ \/ /\ logOpen' = TRUE
          /\ pc' = "popen"
          /\ UNCHANGED <<result, exitCode>>
       \/ /\ UNCHANGED logOpen
          /\ Exit("open_failed", EXIT_FAIL)
    /\ UNCHANGED <<script, host, dirExists, checks, env, procv, pollv,
                   reportedReady, ticks>>

\* The handle as a plain open() without the with block would leave it.
with_exit_leak(open) == open

\* The handle when control leaves the with block, on any path: closed.
with_exit(open) == FALSE

\* subprocess.Popen(cmd, stdout=log_file, env=env, ...).  A failure to
\* create the process raises inside the with block: the block closes the
\* file, "except Exception" returns False.
popen ==
    /\ script = "server"
    /\ pc = "popen"
    /\ \/ /\ child' = "starting"
          /\ spawns' = spawns + 1
          /\ envAtSpawn' = env
          /\ pc' = "sleep3"
          /\ UNCHANGED <<logOpen, result, exitCode>>
       \/ /\ logOpen' = with_exit(logOpen)
          /\ Exit("popen_failed", EXIT_FAIL)
          /\ UNCHANGED <<child, spawns, envAtSpawn>>
    /\ UNCHANGED <<script, served, host, dirExists, checks, env, terminated,
                   waited, pollv, reportedReady, ticks>>

\* time.sleep(3) returns.
sleep3 ==
    /\ script = "server"
    /\ pc = "sleep3"
    /\ pc' = "poll"
    /\ UNCHANGED <<script, host, dirExists, checks, env, procv, logOpen,
                   pollv, reportedReady, result, exitCode, ticks>>

\* "if process.poll() is None:" ... "else: return False"
liveness_check ==
    /\ script = "server"
    /\ pc = "poll"
    /\ IF child \in Alive
       THEN /\ pc' = "heartbeat"
            /\ attempt' = 0
            /\ UNCHANGED <<logOpen, result, exitCode>>
       ELSE /\ logOpen' = with_exit(logOpen)
            /\ Exit("early_exit", EXIT_FAIL)
            /\ UNCHANGED attempt
    /\ UNCHANGED <<script, host, dirExists, checks, env, procv, requests,
                   sleeps, sleptSince, backToBack, lastHB, reportedReady,
                   ticks>>

\* The loop is left after its last iteration: "Server started but not
\* responding to heartbeat", return False; else the next iteration starts.
next_attempt ==
    IF attempt + 1 >= timeout_attempts
    THEN /\ logOpen' = with_exit(logOpen)
         /\ Exit("not_responding", EXIT_FAIL)
    ELSE /\ pc' = "heartbeat"
         /\ UNCHANGED <<logOpen, result, exitCode>>

\* The same request with the "return True" of the 200 branch dropped.
heartbeat_no_return ==
    /\ script = "server"
    /\ pc = "heartbeat"
    /\ \E r \in HeartbeatOutcomes :
         /\ requests' = requests + 1
         /\ lastHB' = r
         /\ backToBack' = (backToBack \/ (requests > 0 /\ ~sleptSince))
         /\ sleptSince' = FALSE
         /\ IF r = "connerr"
            THEN /\ pc' = "sleep2"
                 /\ UNCHANGED <<attempt, logOpen, result, exitCode>>
            ELSE /\ attempt' = attempt + 1
                 /\ next_attempt
         /\ UNCHANGED reportedReady
    /\ UNCHANGED <<script, host, dirExists, checks, env, procv, sleeps,
                   ticks>>

\* One iteration of "for attempt in range(5)": the request and what follows
\* it without blocking.  200: return True, main shows the connection info
\* and enters the keep-running loop.  Another status: nothing is done, the
\* loop goes on.  RequestException: the except branch, which sleeps.
heartbeat ==
    /\ script = "server"
    /\ pc = "heartbeat"
    /\ \E r \in HeartbeatOutcomes :
         /\ requests' = requests + 1
         /\ lastHB' = r
         /\ backToBack' = (backToBack \/ (requests > 0 /\ ~sleptSince))
         /\ sleptSince' = FALSE
         /\ CASE r = "ok200" ->
                   /\ logOpen' = with_exit(logOpen)
                   /\ reportedReady' = TRUE
                   /\ pc' = "keep_running"
                   /\ UNCHANGED <<attempt, result, exitCode>>
              [] r = "other" ->
                   /\ attempt' = attempt + 1
                   /\ next_attempt
                   /\ UNCHANGED reportedReady
              [] r = "connerr" ->
                   /\ pc' = "sleep2"
                   /\ UNCHANGED <<attempt, logOpen, reportedReady, result,
                                  exitCode>>
    /\ UNCHANGED <<script, host, dirExists, checks, env, procv, sleeps,
                   ticks>>

\* time.sleep(2) of the except branch returns; the iteration ends.
sleep2 ==
    /\ script = "server"
    /\ pc = "sleep2"
    /\ sleeps' = sleeps + 1
    /\ sleptSince' = TRUE
    /\ attempt' = attempt + 1
    /\ next_attempt
    /\ UNCHANGED <<script, host, dirExists, checks, env, procv, requests,
                   backToBack, lastHB, reportedReady, ticks>>

\* KeyboardInterrupt raised inside start_chromadb_server (in time.sleep or
\* requests.get).  It is not an Exception: the with block closes the file,
\* "except Exception" does not catch it, main calls the function outside
\* its try, so the interpreter ends with the traceback.
interrupt_in_launch ==
    /\ script = "server"
    /\ pc \in {"sleep3", "heartbeat", "sleep2"}
    /\ logOpen' = with_exit(logOpen)
    /\ Exit("interrupted", EXIT_SIGINT)
    /\ UNCHANGED <<script, host, dirExists, checks, env, procv, pollv,
                   reportedReady, ticks>>

\* "while True: time.sleep(1)"
keep_running ==
    /\ script = "server"
    /\ pc = "keep_running"
    /\ ticks < MaxTicks
    /\ ticks' = ticks + 1
    /\ UNCHANGED <<script, pc, host, dirExists, checks, env, procv, logOpen,
                   pollv, reportedReady, result, exitCode>>

\* "except KeyboardInterrupt: print('Stopping ChromaDB server...');
\* return True", then sys.exit(0).
keyboard_interrupt ==
    /\ script = "server"
    /\ pc = "keep_running"
    /\ Exit("interrupted", EXIT_OK)
    /\ UNCHANGED <<script, host, dirExists, checks, env, procv, logOpen,
                   pollv, reportedReady, ticks>>

ServerNext ==
    \/ check_python_version
    \/ check_chromadb_installed
    \/ create_data_directory
    \/ main_check_port_available
    \/ prepare_env
    \/ open_log
    \/ popen
    \/ sleep3
    \/ liveness_check
    \/ heartbeat
    \/ sleep2
    \/ interrupt_in_launch
    \/ keep_running
    \/ keyboard_interrupt

----------------------------------------------------------------------------
(* scripts/start-chromadb-server-fixed.py *)

\* check_port_availability(): connect_ex returns 0 when anything listens on
\* the port (False); a socket error is caught and gives False as well.
check_port_availability(p, sockErr) ==
    IF sockErr THEN FALSE ELSE p = "free"

\* main(): "if not check_python_version(): sys.exit(1)"
fixed_check_python_version ==
    /\ script = "fixed"
    /\ pc = "check_python_version"
    /\ checks' = Append(checks, "version")
    /\ IF pyOK
       THEN /\ pc' = "check_chromadb_installation"
            /\ UNCHANGED <<result, exitCode>>
       ELSE Exit("precheck", EXIT_FAIL)
    /\ UNCHANGED <<script, host, dirExists, env, procv, logOpen, pollv,
                   reportedReady, ticks>>

\* main(): "if not check_chromadb_installation(): sys.exit(1)"
fixed_check_chromadb_installation ==
    /\ script = "fixed"
    /\ pc = "check_chromadb_installation"
    /\ checks' = Append(checks, "library")
    /\ IF libOK
       THEN /\ pc' = "check_data_directory"
            /\ UNCHANGED <<result, exitCode>>
       ELSE Exit("precheck", EXIT_FAIL)
    /\ UNCHANGED <<script, host, dirExists, env, procv, logOpen, pollv,
                   reportedReady, ticks>>

\* main(): "if not check_data_directory(): sys.exit(1)".  As in the other
\* script the function returns True or raises out of the script.
fixed_check_data_directory ==
    /\ script = "fixed"
    /\ pc = "check_data_directory"
    /\ checks' = Append(checks, "datadir")
    /\ IF dirExists \/ mkdirOK
       THEN /\ dirExists' = TRUE
            /\ pc' = "check_port_availability"
            /\ UNCHANGED <<result, exitCode>>
       ELSE /\ UNCHANGED dirExists
            /\ Exit("precheck", EXIT_FAIL)
    /\ UNCHANGED <<script, host, env, procv, logOpen, pollv, reportedReady,
                   ticks>>

\* main(): "if not check_port_availability(): ... sys.exit(1)"
fixed_check_port_availability ==
    /\ script = "fixed"
    /\ pc = "check_port_availability"
    /\ checks' = Append(checks, "port")
    /\ \E sockErr \in BOOLEAN :
         IF check_port_availability(port, sockErr)
         THEN /\ pc' = "setup_environment"
              /\ UNCHANGED <<result, exitCode>>
         ELSE Exit("precheck", EXIT_FAIL)
    /\ UNCHANGED <<script, host, dirExists, env, procv, logOpen, pollv,
                   reportedReady, ticks>>

\* setup_environment(): the six assignments to os.environ, which
\* start_chromadb_server copies for the child.
setup_environment ==
    /\ script = "fixed"
    /\ pc = "setup_environment"
    /\ env' = [env EXCEPT
                 !["CHROMA_SERVER_CORS_ALLOW_ORIGINS"] = "[\"*\"]",
                 !["CHROMA_SERVER_HOST"] = "localhost",
                 !["CHROMA_SERVER_HTTP_PORT"] = "8000",
                 !["CHROMA_SERVER_GRPC_PORT"] = "8001",
                 !["CHROMA_SERVER_AUTHN_CREDENTIALS_FILE"] = "",
                 !["CHROMA_SERVER_AUTHN_PROVIDER"] = ""]
    /\ pc' = "open_log"
    /\ UNCHANGED <<script, host, dirExists, checks, procv, logOpen, pollv,
                   reportedReady, result, exitCode, ticks>>

\* "with open('./chromadb_data/server.log', 'w') as log_file:"; an OSError
\* is caught by "except Exception": return False, main exits with 1.  (The
\* log_dir.mkdir before it finds the directory check_data_directory left.)
fixed_open_log ==
    /\ script = "fixed"
    /\ pc = "open_log"
    /\ \/ /\ logOpen' = TRUE
          /\ pc' = "popen"
          /\ UNCHANGED <<result, exitCode>>
       \/ /\ UNCHANGED logOpen
          /\ Exit("open_failed", EXIT_FAIL)
    /\ UNCHANGED <<script, host, dirExists, checks, env, procv, pollv,
                   reportedReady, ticks>>

\* The handle when control leaves this script's with block.
fixed_with_exit(open) == FALSE

\* subprocess.Popen(...) is the whole body of the with block: the file is
\* closed when it returns and when it raises.
fixed_popen ==
    /\ script = "fixed"
    /\ pc = "popen"
    /\ logOpen' = fixed_with_exit(logOpen)
    /\ \/ /\ child' = "starting"
          /\ spawns' = spawns + 1
          /\ envAtSpawn' = env
          /\ pc' = "sleep3"
          /\ UNCHANGED <<result, exitCode>>
       \/ /\ Exit("popen_failed", EXIT_FAIL)
          /\ UNCHANGED <<child, spawns, envAtSpawn>>
    /\ UNCHANGED <<script, served, host, dirExists, checks, env, terminated,
                   waited, pollv, reportedReady, ticks>>

\* time.sleep(3) returns.
fixed_sleep3 ==
    /\ script = "fixed"
    /\ pc = "sleep3"
    /\ pc' = "poll"
    /\ UNCHANGED <<script, host, dirExists, checks, env, procv, logOpen,
                   pollv, reportedReady, result, exitCode, ticks>>

\* KeyboardInterrupt during time.sleep(3): outside the inner try, not an
\* Exception, so nothing catches it.
fixed_interrupt_sleep3 ==
    /\ script = "fixed"
    /\ pc = "sleep3"
    /\ Exit("interrupted", EXIT_SIGINT)
    /\ UNCHANGED <<script, host, dirExists, checks, env, procv, logOpen,
                   pollv, reportedReady, ticks>>

\* "if process.poll() is None: print('Server is running successfully!')"
\* and the script blocks in process.wait(); else return False.
fixed_liveness_check ==
    /\ script = "fixed"
    /\ pc = "poll"
    /\ IF child \in Alive
       THEN /\ reportedReady' = TRUE
            /\ pc' = "wait"
            /\ UNCHANGED <<result, exitCode>>
       ELSE /\ Exit("early_exit", EXIT_FAIL)
            /\ UNCHANGED reportedReady
    /\ UNCHANGED <<script, host, dirExists, checks, env, procv, logOpen,
                   pollv, ticks>>

\* process.wait() returns because the child has exited: return True, main
\* falls off its end and the interpreter exits with 0.
fixed_wait_returns ==
    /\ script = "fixed"
    /\ pc = "wait"
    /\ child = "exited"
    /\ waited' = TRUE
    /\ Exit("returned", EXIT_OK)
    /\ UNCHANGED <<script, host, dirExists, checks, env, envAtSpawn, child,
                   served, spawns, terminated, logOpen, pollv, reportedReady,
                   ticks>>

\* "except KeyboardInterrupt: process.terminate()" and the script blocks in
\* the second process.wait().
fixed_keyboard_interrupt ==
    /\ script = "fixed"
    /\ pc = "wait"
    /\ terminated' = TRUE
    /\ pc' = "stopping"
    /\ UNCHANGED <<script, host, dirExists, checks, env, envAtSpawn, child,
                   served, spawns, waited, logOpen, pollv, reportedReady,
                   result, exitCode, ticks>>

\* The second process.wait() returns: "Server stopped gracefully",
\* return True.
fixed_stopped ==
    /\ script = "fixed"
    /\ pc = "stopping"
    /\ child = "exited"
    /\ waited' = TRUE
    /\ Exit("interrupted", EXIT_OK)
    /\ UNCHANGED <<script, host, dirExists, checks, env, envAtSpawn, child,
                   served, spawns, terminated, logOpen, pollv, reportedReady,
                   ticks>>

\* A second KeyboardInterrupt, raised in the handler's process.wait(): it
\* leaves the handler and nothing catches it.
fixed_interrupt_stopping ==
    /\ script = "fixed"
    /\ pc = "stopping"
    /\ Exit("interrupted", EXIT_SIGINT)
    /\ UNCHANGED <<script, host, dirExists, checks, env, procv, logOpen,
                   pollv, reportedReady, ticks>>

FixedNext ==
    \/ fixed_check_python_version
    \/ fixed_check_chromadb_installation
    \/ fixed_check_data_directory
    \/ fixed_check_port_availability
    \/ setup_environment
    \/ fixed_open_log
    \/ fixed_popen
    \/ fixed_sleep3
    \/ fixed_interrupt_sleep3
    \/ fixed_liveness_check
    \/ fixed_wait_returns
    \/ fixed_keyboard_interrupt
    \/ fixed_stopped
    \/ fixed_interrupt_stopping

----------------------------------------------------------------------------
(* scripts/start-chromadb-simple.py *)

\* data_dir.mkdir(exist_ok=True), outside the try: an OSError ends the
\* script with a traceback and status 1.
simple_mkdir ==
    /\ script = "simple"
    /\ pc = "mkdir"
    /\ checks' = Append(checks, "datadir")
    /\ IF dirExists \/ mkdirOK
       THEN /\ dirExists' = TRUE
            /\ pc' = "set_env"
            /\ UNCHANGED <<result, exitCode>>
       ELSE /\ UNCHANGED dirExists
            /\ Exit("precheck", EXIT_FAIL)
    /\ UNCHANGED <<script, host, env, procv, logOpen, pollv, reportedReady,
                   ticks>>

\* The two assignments to os.environ, which os.system hands to the command.
simple_set_env ==
    /\ script = "simple"
    /\ pc = "set_env"
    /\ env' = [env EXCEPT
                 !["CHROMA_SERVER_CORS_ALLOW_ORIGINS"] = "*",
                 !["ANONYMIZED_TELEMETRY"] = "false"]
    /\ pc' = "import"
    /\ UNCHANGED <<script, host, dirExists, checks, procv, logOpen, pollv,
                   reportedReady, result, exitCode, ticks>>

\* "import chromadb"; "except ImportError: ... sys.exit(1)"
simple_import ==
    /\ script = "simple"
    /\ pc = "import"
    /\ checks' = Append(checks, "library")
    /\ IF libOK
       THEN /\ pc' = "os_system"
            /\ UNCHANGED <<result, exitCode>>
       ELSE Exit("precheck", EXIT_FAIL)
    /\ UNCHANGED <<script, host, dirExists, env, procv, logOpen, pollv,
                   reportedReady, ticks>>

\* os.system('python -m chromadb.cli.cli run ...') is entered.  Either the
\* server process starts and the call blocks, or the command cannot be
\* started: os.system returns a non-zero status, which the script drops, and
\* main falls off its end.
simple_os_system ==
    /\ script = "simple"
    /\ pc = "os_system"
    /\ \/ /\ child' = "starting"
          /\ spawns' = spawns + 1
          /\ envAtSpawn' = env
          /\ pc' = "in_system"
          /\ UNCHANGED <<result, exitCode>>
       \/ /\ Exit("returned", EXIT_OK)
          /\ UNCHANGED <<child, spawns, envAtSpawn>>
    /\ UNCHANGED <<script, served, host, dirExists, checks, env, terminated,
                   waited, logOpen, pollv, reportedReady, ticks>>

\* os.system returns once the command has exited; main falls off its end.
simple_os_system_returns ==
    /\ script = "simple"
    /\ pc = "in_system"
    /\ child = "exited"
    /\ waited' = TRUE
    /\ Exit("returned", EXIT_OK)
    /\ UNCHANGED <<script, host, dirExists, checks, env, envAtSpawn, child,
                   served, spawns, terminated, logOpen, pollv, reportedReady,
                   ticks>>

\* Ctrl+C while os.system blocks: the terminal delivers the signal to the
\* command, which exits, and os.system returns.  Whether the parent then
\* sees a KeyboardInterrupt depends on the platform; the handler only
\* prints, so the script ends with status 0 either way.
simple_keyboard_interrupt ==
    /\ script = "simple"
    /\ pc = "in_system"
    /\ child \in Alive
    /\ child' = "exited"
    /\ waited' = TRUE
    /\ \E raised \in BOOLEAN :
         Exit(IF raised THEN "interrupted" ELSE "returned", EXIT_OK)
    /\ UNCHANGED <<script, served, host, dirExists, checks, env, envAtSpawn,
                   spawns, terminated, logOpen, pollv, reportedReady, ticks>>

SimpleNext ==
    \/ simple_mkdir
    \/ simple_set_env
    \/ simple_import
    \/ simple_os_system
    \/ simple_os_system_returns
    \/ simple_keyboard_interrupt

----------------------------------------------------------------------------
(* One run of one script *)

ChildNext ==
    \/ child_becomes_serving
    \/ child_exits

Next ==
    \/ ServerNext
    \/ FixedNext
    \/ SimpleNext
    \/ ChildNext

Spec == Init /\ [][Next]_vars

----------------------------------------------------------------------------
(* Vocabulary of the properties *)

\* The scripts that run the four preflight checks.
Preflighted == {"server", "fixed"}

\* The checks a script runs before it launches.
ChecksOf(s) == IF s \in Preflighted THEN PrecheckOrder
               ELSE <<"datadir", "library">>

IsPrefix(a, b) ==
    /\ Len(a) <= Len(b)
    /\ \A i \in 1..Len(a) : a[i] = b[i]

\* The host does not meet the condition check c tests.
CheckFails(c) ==
    CASE c = "version" -> ~pyOK
      [] c = "library" -> ~libOK
      [] c = "datadir" -> ~dirExists /\ ~mkdirOK
      [] c = "port"    -> IF script = "server"
                          THEN port = "http200"
                          ELSE port # "free"

PortChecked == \E i \in DOMAIN checks : checks[i] = "port"

EnvUntouched == \A v \in EnvNames : env[v] = Unset

\* Something answers HTTP on the port before the run.
Responsive == {"http200", "httpOther"}

\* The lifecycle state of the run, read off what the script has done.
Phase ==
    CASE result = "interrupted"                      -> "STOPPED"
      [] result \in Failures                         -> "FAILED"
      [] reportedReady                               -> "READY"
      [] spawns > 0                                  -> "LAUNCHED"
      [] checks = ChecksOf(script)                   -> "PRECHECKED"
      [] OTHER                                       -> "NOT_STARTED"

LifecycleSteps ==
    { <<"NOT_STARTED", "PRECHECKED">>, <<"NOT_STARTED", "FAILED">>,
      <<"PRECHECKED", "LAUNCHED">>,    <<"PRECHECKED", "FAILED">>,
      <<"LAUNCHED", "READY">>,         <<"LAUNCHED", "FAILED">>,
      <<"LAUNCHED", "STOPPED">>,       <<"READY", "STOPPED">> }

\* One step of a run as the lifecycle allows it.
LifecycleStep ==
    /\ Phase' # Phase => <<Phase, Phase'>> \in LifecycleSteps
    /\ spawns' <= 1
    /\ (Phase' = "STOPPED" /\ Phase # "STOPPED") =>
          (terminated' /\ child' = "exited")

----------------------------------------------------------------------------
(* Properties *)

\* C1: whichever way a run ends, a child that was spawned has exited, or
\* has been sent a terminate signal and waited for; no run ends with a live
\* child that was never terminated.
C1_NoOrphanAtExit ==
    (pc = "done" /\ spawns > 0) =>
        (child = "exited" \/ (terminated /\ waited))

\* C2: in the scripts with preflight checks, the checks run in the order
\* version, library, data directory, port, none twice; a check that fails is
\* the last one executed; a failed check leaves the environment
\* unconfigured, no process spawned and the run ended with a failure; and
\* the launch is reached only after all four have passed.
C2_PreflightFailFast ==
    script \in Preflighted =>
        /\ IsPrefix(checks, PrecheckOrder)
        /\ \A i \in 1..(Len(checks) - 1) : ~CheckFails(checks[i])
        /\ result = "precheck" =>
              /\ pc = "done"
              /\ exitCode = EXIT_FAIL
              /\ EnvUntouched
              /\ spawns = 0
              /\ child = "none"
        /\ (~EnvUntouched \/ spawns > 0 \/ logOpen) =>
              /\ checks = PrecheckOrder
              /\ \A i \in 1..Len(checks) : ~CheckFails(checks[i])

\* C2 witness: the library check failed after the version check passed and
\* the run of the server script is over.
C2_Witness ==
    /\ script = "server"
    /\ pc = "done"
    /\ result = "precheck"
    /\ checks = <<"version", "library">>

\* C3: when something answers on the port at the time of the port check,
\* the check reports the port unavailable and no server is spawned.
C3_NoSpawnOnBusyPort ==
    (PortChecked /\ port \in Responsive) =>
        (result = "precheck" /\ spawns = 0)

\* C4: the readiness poll issues at most timeout_attempts (5) requests, and
\* the first 200 ends it with success: the run is reported ready, the poll
\* loop is left and no further request is issued.
C4_BoundedPoll ==
    /\ [](/\ requests <= 5
          /\ lastHB = "ok200" =>
                (reportedReady /\ pc \in {"keep_running", "done"}))
    /\ [][lastHB = "ok200" => requests' = requests]_vars

\* C4 witness: the fifth request of a poll is the first answered with 200.
C4_Witness ==
    /\ lastHB = "ok200"
    /\ requests = 5
    /\ reportedReady

\* C5: a poll that never sees 200 fails after exactly 5 attempts, each
\* followed by one sleep, and no two requests are issued back to back.
C5_SleepBetweenAttempts ==
    /\ ~backToBack
    /\ result = "not_responding" => (requests = 5 /\ sleeps = 5)

\* C6: a run exits with 0 only when the server was launched and nothing
\* failed, and with 1 on every precondition, launch or readiness failure.
C6_ExitCodes ==
    pc = "done" =>
        /\ exitCode = EXIT_OK => (spawns > 0 /\ result \notin Failures)
        /\ result \in Failures => exitCode = EXIT_FAIL

\* C7: when the child exits without ever having served, a run that is not
\* interrupted ends as a failure, is not reported ready, and has spawned no
\* second process.
C7_EarlyExitFails ==
    /\ spawns <= 1
    /\ (/\ script \in Preflighted
        /\ pc = "done"
        /\ result # "interrupted"
        /\ child = "exited"
        /\ ~served) =>
            (result \in Failures /\ exitCode = EXIT_FAIL /\ ~reportedReady)

\* C8: when the child is spawned each of the six server variables is set in
\* the environment handed to it, and the environment is not written later.
C8_SixVarsBeforeSpawn ==
    spawns > 0 =>
        /\ \A v \in SixVars : envAtSpawn[v] # Unset
        /\ env = envAtSpawn

\* C9: the lifecycle moves only along NOT_STARTED -> PRECHECKED -> LAUNCHED
\* -> READY | FAILED (a failure ends the run from any earlier state), at
\* most one process is spawned, and STOPPED is entered only from LAUNCHED or
\* READY with the child terminated and exited.
C9_Lifecycle ==
    [][(script \in Preflighted) => LifecycleStep]_vars

\* C10: the parent holds the log file handle only inside the launch step's
\* with block; it is closed on every path out of it, and no run ends with
\* it open.
C10_LogHandleScoped ==
    logOpen =>
        \/ script = "server" /\
             pc \in {"popen", "sleep3", "poll", "heartbeat", "sleep2"}
        \/ script = "fixed" /\ pc = "popen"

\* C10 witness: subprocess creation failed with the handle open, and the
\* run ended with the handle closed.
C10_Witness ==
    /\ pc = "done"
    /\ result = "popen_failed"
    /\ ~logOpen

\* C11: a script reports the server ready or running only after a heartbeat
\* request issued after the spawn was answered with HTTP 200; a run with no
\* such answer never reports success.
C11_ReadyOnlyAfter200 ==
    reportedReady =>
        /\ spawns > 0
        /\ requests > 0
        /\ lastHB = "ok200"

====
